---- MODULE Spec2Model ----
(***************************************************************************)
(* Model of the mutils logging subsystem (include/mutils/logger.hpp):      *)
(* the process-wide LogSink (mutex + std::ofstream), the per-thread        *)
(* Logger that composes decorated messages, and the ANSI stripper inside   *)
(* LogSink::write_to_file.  Bytes are their ASCII codes.                   *)
(***************************************************************************)
EXTENDS Integers, Sequences, FiniteSets, TLC

\* ------------------------------------------------------------------ bounds
\* total number of public operations (log/warn/err/dbg/open/close/is_open)
\* started in one behaviour
MaxOps == 3
\* longest message handed to write_to_file in the stripper specification
MaxMsgLen == 4
\* longest string handed to lines()
MaxStrLen == 4

\* the threads that use the logger and the sink
Threads == {1, 2}

\* ------------------------------------------------------------------- bytes
\* '\033'
ESC == 27
\* '\n'
NL == 10

\* (c >= 'A' && c <= 'Z') || (c >= 'a' && c <= 'z')
IsLetterBroken(c) == (c >= 65 /\ c <= 91) \/ (c >= 97 /\ c <= 122)
IsLetter(c) == (c >= 65 /\ c <= 90) \/ (c >= 97 /\ c <= 122)

\* One iteration of the loop of write_to_file on byte c with state bit
\* in_escape: the new state bit and the bytes handed to `file << c`.
StripStepDropsNewline(in_escape, c) ==
    IF in_escape
    THEN [in_escape |-> ~IsLetter(c), emit |-> << >>]
    ELSE IF c = ESC \/ c = NL
         THEN [in_escape |-> (c = ESC), emit |-> << >>]
         ELSE [in_escape |-> FALSE, emit |-> <<c>>]
StripStep(in_escape, c) ==
    IF in_escape
    THEN IF IsLetter(c)
         THEN [in_escape |-> FALSE, emit |-> << >>]
         ELSE [in_escape |-> TRUE, emit |-> << >>]
    ELSE IF c = ESC
         THEN [in_escape |-> TRUE, emit |-> << >>]
         ELSE [in_escape |-> FALSE, emit |-> <<c>>]

\* The whole loop of write_to_file on msg, as a function: the bytes handed to
\* `file <<`, the trailing '\n' included.
RECURSIVE StripFrom(_, _, _)
StripFrom(msg, i, in_escape) ==
    IF i > Len(msg)
    THEN <<NL>>
    ELSE LET r == StripStep(in_escape, msg[i])
         IN  r.emit \o StripFrom(msg, i + 1, r.in_escape)

write_to_file_bytes(msg) == StripFrom(msg, 1, FALSE)

\* ------------------------------------------------------------------ Logger
\* oss << thread_id_: the display string of thread t (one decimal digit)
ThreadIdStr(t) == <<48 + t>>

\* std::hash<std::thread::id>: thread t is identified with its hash value
ThreadHash(t) == t

\* static const char *colors[]: "\033[96m" ... "\033[34m"
colors ==
    << <<ESC, 91, 57, 54, 109>>, <<ESC, 91, 57, 53, 109>>,
       <<ESC, 91, 57, 52, 109>>, <<ESC, 91, 57, 51, 109>>,
       <<ESC, 91, 57, 50, 109>>, <<ESC, 91, 57, 49, 109>>,
       <<ESC, 91, 51, 54, 109>>, <<ESC, 91, 51, 53, 109>>,
       <<ESC, 91, 51, 52, 109>> >>

\* colors[hash % 9] (TLA+ sequences count from 1)
compute_thread_color(t) == colors[(ThreadHash(t) % 9) + 1]

\* bool is_tty = stdout_is_tty || stderr_is_tty when thread t constructs its
\* Logger: the streams are a terminal when thread 1 first logs and are
\* redirected when any other thread first logs, so that coloured and plain
\* messages meet in one file
IsTty(t) == t = 1

\* The Logger constructor: colours are set only when a stream is a terminal.
NewLogger(t, is_tty) ==
    [ thread_id_str |-> ThreadIdStr(t),
      thread_color  |-> IF is_tty THEN compute_thread_color(t) ELSE << >>,
      log_color     |-> IF is_tty THEN <<ESC, 91, 51, 50, 109>> ELSE << >>,
      warn_color    |-> IF is_tty THEN <<ESC, 91, 51, 51, 109>> ELSE << >>,
      error_color   |-> IF is_tty THEN <<ESC, 91, 51, 49, 109>> ELSE << >>,
      reset         |-> IF is_tty THEN <<ESC, 91, 48, 109>> ELSE << >> ]

\* std::format("[THREAD {}] ", thread_id_str_)
ThreadTag(id_str) == <<91, 84, 72, 82, 69, 65, 68, 32>> \o id_str \o <<93, 32>>

\* "[LOG]: ", "[ERROR]: ", "[WARNING]: ", "[DEBUG]: "
LevelTagDebugAsLog(lv) ==
    CASE lv = "log"  -> <<91, 76, 79, 71, 93, 58, 32>>
      [] lv = "err"  -> <<91, 69, 82, 82, 79, 82, 93, 58, 32>>
      [] lv = "warn" -> <<91, 87, 65, 82, 78, 73, 78, 71, 93, 58, 32>>
      [] lv = "dbg"  -> <<91, 76, 79, 71, 93, 58, 32>>
LevelTag(lv) ==
    CASE lv = "log"  -> <<91, 76, 79, 71, 93, 58, 32>>
      [] lv = "err"  -> <<91, 69, 82, 82, 79, 82, 93, 58, 32>>
      [] lv = "warn" -> <<91, 87, 65, 82, 78, 73, 78, 71, 93, 58, 32>>
      [] lv = "dbg"  -> <<91, 68, 69, 66, 85, 71, 93, 58, 32>>

\* log_color_ for log and dbg, error_color_ for err, warn_color_ for warn
LevelColor(lg, lv) ==
    CASE lv = "log"  -> lg.log_color
      [] lv = "err"  -> lg.error_color
      [] lv = "warn" -> lg.warn_color
      [] lv = "dbg"  -> lg.log_color

\* auto msg = thread_color_ + "[THREAD id] " + <level colour> + "[LEVEL]: "
\*            + body + reset_
Compose(lg, lv, body) ==
    lg.thread_color \o ThreadTag(lg.thread_id_str) \o LevelColor(lg, lv)
        \o LevelTag(lv) \o body \o lg.reset

\* the flush argument each level passes to write
FlushArgNever(lv) == FALSE
FlushArg(lv) == lv = "err"

\* the use_stderr argument each level passes to write
UseStderrSwapped(lv) == lv \in {"log", "dbg"}
UseStderrArg(lv) == lv \in {"err", "warn"}

\* ------------------------------------------------------------ environment
\* the file the process can create or open for writing
GoodPaths == {"run.log"}
\* a path std::ofstream::open cannot open (its directory does not exist)
BadPath == "/no/such/dir/run.log"
NoPath == ""

\* content of run.log left by an earlier run: "old\n"
OldContent == <<111, 108, 100, NL>>

\* the logging calls the threads make, <<level, formatted body>>:
\* log("x"), err("x\ny"), warn("\033[1mz"), dbg("x")
Calls ==
    { <<"log", <<120>> >>, <<"err", <<120, NL, 121>> >>,
      <<"warn", <<ESC, 91, 49, 109, 122>> >>, <<"dbg", <<120>> >> }

\* the arguments the threads pass to open, <<path, append>>
OpenArgs == { <<"run.log", FALSE>>, <<"run.log", TRUE>>, <<BadPath, FALSE>> }

\* the bytes of the messages of the stripper specification: ESC, '\n', and
\* the bytes at and next to the ends of 'A'..'Z' and 'a'..'z'
Alphabet == {ESC, NL, 64, 65, 90, 91, 96, 97, 122, 123}

\* every message of at most MaxMsgLen bytes over Alphabet
Messages == UNION {[1..n -> Alphabet] : n \in 0..MaxMsgLen}

\* ------------------------------------------------------------------- state
VARIABLES
    mtx,        \* LogSink::mtx: 0 when free, else the thread that holds it
    file,       \* LogSink::file: 0 when closed, else its open descriptor
    buf,        \* bytes `file <<` has put in the stream buffer, not yet on disk
    fds,        \* the descriptors the process holds open: [fd, path]
    nextFd,     \* the descriptor the next successful open returns
    disk,       \* content of each file on disk
    failbit,    \* LogSink::file: failbit or badbit is set (!file.good())
    devFull,    \* the device refuses every further write (it is full)
    is_debug_build, \* Logger::IS_DEBUG_BUILD of the build that runs
    logger,     \* the thread_local Logger of each thread (<<>> before first use)
    term,       \* the writes to std::cout / std::cerr, in order
    pc,         \* where each thread is
    frame,      \* arguments and locals of the operation each thread runs
    ret,        \* what the last open / is_open of each thread returned:
                \* "true", "false", or "none" before it returns
    ops,        \* number of operations started
    \* history, read only by the properties
    sessPath,   \* path of the last successful open
    sessAppend, \* its append argument
    prior,      \* content of that path just before that open
    session,    \* calls that entered write_to_file since that open, each
                \* with the bytes write_to_file emits for its message
    openFailed, \* "no", or how the last open() failed to open its path:
                \* "on_open" when a file was open as it was called,
                \* "on_closed" when none was
    wrote,      \* per thread: <<fd, byte>> for every byte its current call wrote
    flushed,    \* per thread: its current call called file.flush()
    unlocked,   \* operations that touched `file` without holding mtx
    \* the loop `for (const auto &line : mutils::lines(s))`
    str_,       \* LineRange::str_: the string s
    pos,        \* Iterator::pos of the loop's iterator
    current,    \* Iterator::current of the loop's iterator
    out,        \* the lines the loop body has received, in order
    lpc         \* where the loop is

sinkVars == <<mtx, file, buf, fds, nextFd, disk, failbit>>
histVars == <<sessPath, sessAppend, prior, session, openFailed>>
envVars == <<devFull, is_debug_build>>
linesVars == <<str_, pos, current, out, lpc>>
vars == <<mtx, file, buf, fds, nextFd, disk, failbit, devFull, is_debug_build,
          logger, term, pc, frame, ret, ops, sessPath, sessAppend, prior,
          session, openFailed, wrote, flushed, unlocked, str_, pos, current,
          out, lpc>>

NoLogger == << >>

IdleFrame ==
    [ level |-> "none", body |-> << >>, msg |-> << >>, flush |-> FALSE,
      use_stderr |-> FALSE, i |-> 0, in_escape |-> FALSE,
      path |-> NoPath, append |-> FALSE, n |-> 0, was_open |-> FALSE ]

\* std::ofstream::is_open()
FileIsOpen == file # 0

\* a returned bool, as ret records it
Returned(b) == IF b THEN "true" ELSE "false"

\* the path the open descriptor refers to
PathOfFile == (CHOOSE h \in fds : h.fd = file).path

\* what a reader sees once the stream buffer is written out
FileContent(p) ==
    IF FileIsOpen /\ PathOfFile = p THEN disk[p] \o buf ELSE disk[p]

\* no loop over lines() is running
NoLoop ==
    /\ str_ = << >>
    /\ pos = 0
    /\ current = << >>
    /\ out = << >>
    /\ lpc = "none"

InitCommon ==
    /\ buf = << >>
    /\ failbit = FALSE
    /\ devFull = FALSE
    /\ openFailed = "no"
    /\ disk = [p \in GoodPaths |-> IF p = "run.log" THEN OldContent ELSE << >>]
    /\ logger = [t \in Threads |-> NoLogger]
    /\ term = << >>
    /\ ret = [t \in Threads |-> "none"]
    /\ ops = 0
    /\ wrote = [t \in Threads |-> << >>]
    /\ flushed = [t \in Threads |-> FALSE]
    /\ unlocked = {}

Init ==
    /\ InitCommon
    /\ NoLoop
    /\ is_debug_build = TRUE
    /\ mtx = 0
    /\ file = 0
    /\ fds = {}
    /\ nextFd = 3
    /\ sessPath = NoPath
    /\ sessAppend = FALSE
    /\ prior = << >>
    /\ session = << >>
    /\ pc = [t \in Threads |-> "idle"]
    /\ frame = [t \in Threads |-> IdleFrame]

\* ------------------------------------------------------------------- mutex
\* std::lock_guard lock(mtx): blocks until the mutex is free
LockGuardNoWait(t) == mtx' = t
LockGuard(t) == mtx = 0 /\ mtx' = t

\* end of the lock_guard's scope
UnlockForgotten(t) == mtx' = mtx
Unlock(t) == mtx' = 0

\* history: operation op of thread t touches `file`
Touch(t, op) == unlocked' = IF mtx = t THEN unlocked ELSE unlocked \cup {op}

\* ------------------------------------------------------------ std::ofstream
\* file << bytes: goes to the stream buffer; does nothing when failbit or
\* badbit is set, fails (badbit) when the stream is closed
StreamPutFront(bytes) ==
    /\ buf' = IF FileIsOpen /\ ~failbit THEN bytes \o buf ELSE buf
    /\ failbit' = (failbit \/ ~FileIsOpen)
StreamPut(bytes) ==
    /\ buf' = IF FileIsOpen /\ ~failbit THEN buf \o bytes ELSE buf
    /\ failbit' = (failbit \/ ~FileIsOpen)

\* file.flush(): the buffer is written to the file; does nothing when
\* failbit or badbit is set; a write the device refuses sets badbit
StreamFlush ==
    IF FileIsOpen /\ ~failbit
    THEN IF devFull /\ buf # << >>
         THEN /\ failbit' = TRUE
              /\ UNCHANGED <<disk, buf>>
         ELSE /\ disk' = [disk EXCEPT ![PathOfFile] = @ \o buf]
              /\ buf' = << >>
              /\ UNCHANGED failbit
    ELSE UNCHANGED <<disk, buf, failbit>>

\* file.close(): writes the buffer out and releases the descriptor; when the
\* device refuses the write the buffered bytes are lost and failbit is set
StreamClose ==
    /\ disk' = IF devFull THEN disk ELSE [disk EXCEPT ![PathOfFile] = @ \o buf]
    /\ failbit' = (failbit \/ (devFull /\ buf # << >>))
    /\ buf' = << >>
    /\ fds' = {h \in fds : h.fd # file}
    /\ file' = 0

\* std::ios::out | (append ? std::ios::app : std::ios::trunc)
OpenModeAlwaysTrunc(append) == "trunc"
OpenModeAlwaysApp(append) == "app"
OpenMode(append) == IF append THEN "app" ELSE "trunc"

\* file.open(path, mode) succeeds when the stream is closed and the path can
\* be opened
StreamOpenSucceeds(path) == ~FileIsOpen /\ path \in GoodPaths

\* file.open(path, mode): on success a new descriptor, the file truncated
\* unless mode has app, and the error state cleared; on failure failbit is set
StreamOpen(path, mode) ==
    IF StreamOpenSucceeds(path)
    THEN /\ file' = nextFd
         /\ fds' = fds \cup {[fd |-> nextFd, path |-> path]}
         /\ nextFd' = nextFd + 1
         /\ disk' = IF mode = "trunc" THEN [disk EXCEPT ![path] = << >>] ELSE disk
         /\ buf' = << >>
         /\ failbit' = FALSE
    ELSE /\ failbit' = TRUE
         /\ UNCHANGED <<file, fds, nextFd, disk, buf>>

\* ------------------------------------------------- Logger::log/err/warn/dbg
\* #ifndef NDEBUG ... #else #define LOG_DBG(...) ((void)0), and
\* if constexpr (IS_DEBUG_BUILD) in dbg: a dbg call is compiled away
ElidedNever(lv) == FALSE
Elided(lv) == lv = "dbg" /\ ~is_debug_build

\* Logger::get() and the body of log / err / warn / dbg up to the call of
\* write: the thread's Logger is constructed on first use, the body is
\* formatted and the decorated message composed.
\* history: the number of logging calls thread t has made so far that were
\* not compiled away (each has written to the terminal when t is idle)
CallsMade(t) == Cardinality({k \in 1..Len(term) : term[k].thread = t})

\* In a build with NDEBUG, LOG_DBG(...) is ((void)0) and the body of dbg is
\* discarded by `if constexpr (IS_DEBUG_BUILD)`: the call does nothing.
LogCall(t, lv, body) ==
    /\ pc[t] = "idle"
    /\ ops < MaxOps
    /\ ops' = ops + 1
    /\ IF Elided(lv)
       THEN UNCHANGED <<logger, frame, pc, ret, wrote, flushed>>
       ELSE /\ logger' = [logger EXCEPT ![t] =
                             IF @ = NoLogger THEN NewLogger(t, IsTty(t)) ELSE @]
            /\ frame' = [frame EXCEPT ![t] =
                             [IdleFrame EXCEPT
                                  !.level = lv, !.body = body,
                                  !.msg = Compose(logger'[t], lv, body),
                                  !.flush = FlushArg(lv),
                                  !.use_stderr = UseStderrArg(lv),
                                  !.n = CallsMade(t) + 1]]
            /\ pc' = [pc EXCEPT ![t] = "write_lock"]
            /\ ret' = [ret EXCEPT ![t] = "none"]
            /\ wrote' = [wrote EXCEPT ![t] = << >>]
            /\ flushed' = [flushed EXCEPT ![t] = FALSE]
    /\ UNCHANGED <<sinkVars, term, histVars, unlocked, envVars, linesVars>>

\* ------------------------------------------------------------ Logger::write
\* std::lock_guard lock(sink.mtx)
WriteLockMissing(t) ==
    /\ pc[t] = "write_lock"
    /\ pc' = [pc EXCEPT ![t] = "write_stream"]
    /\ UNCHANGED <<sinkVars, logger, term, frame, ret, ops, histVars,
                   wrote, flushed, unlocked, envVars, linesVars>>
WriteLock(t) ==
    /\ pc[t] = "write_lock"
    /\ LockGuard(t)
    /\ pc' = [pc EXCEPT ![t] = "write_stream"]
    /\ UNCHANGED <<file, buf, fds, nextFd, disk, failbit, logger, term,
                   frame, ret, ops, histVars, wrote, flushed, unlocked,
                   envVars, linesVars>>

\* stream << msg << '\n' on std::cerr or std::cout
WriteStream(t) ==
    /\ pc[t] = "write_stream"
    /\ term' = Append(term, [ stream |-> IF frame[t].use_stderr
                                         THEN "cerr" ELSE "cout",
                              text |-> frame[t].msg \o <<NL>>,
                              thread |-> t ])
    /\ pc' = [pc EXCEPT ![t] = "write_is_open"]
    /\ UNCHANGED <<sinkVars, logger, frame, ret, ops, histVars, wrote,
                   flushed, unlocked, envVars, linesVars>>

\* if (sink.file.is_open()): enter write_to_file, or skip to the end
WriteIsOpenUnchecked(t) ==
    /\ pc[t] = "write_is_open"
    /\ Touch(t, "log")
    /\ pc' = [pc EXCEPT ![t] = "wtf_loop"]
    /\ frame' = [frame EXCEPT ![t].i = 1, ![t].in_escape = FALSE]
    /\ UNCHANGED <<sinkVars, logger, term, ret, ops, histVars, wrote,
                   flushed, envVars, linesVars>>
WriteIsOpen(t) ==
    /\ pc[t] = "write_is_open"
    /\ Touch(t, "log")
    /\ IF FileIsOpen
       THEN /\ pc' = [pc EXCEPT ![t] = "wtf_loop"]
            /\ frame' = [frame EXCEPT ![t].i = 1, ![t].in_escape = FALSE]
            /\ session' = Append(session, [ thread |-> t,
                                            level |-> frame[t].level,
                                            msg |-> frame[t].msg,
                                            record |-> write_to_file_bytes(
                                                           frame[t].msg),
                                            n |-> frame[t].n ])
       ELSE /\ pc' = [pc EXCEPT ![t] = "write_unlock"]
            /\ UNCHANGED <<frame, session>>
    /\ UNCHANGED <<sinkVars, logger, term, ret, ops, sessPath,
                   sessAppend, prior, openFailed, wrote, flushed, envVars,
                   linesVars>>

\* one iteration of `for (char c : msg)` in write_to_file
WtfLoop(t) ==
    /\ pc[t] = "wtf_loop"
    /\ frame[t].i <= Len(frame[t].msg)
    /\ Touch(t, "log")
    /\ LET r == StripStep(frame[t].in_escape, frame[t].msg[frame[t].i])
       IN  /\ StreamPut(r.emit)
           /\ frame' = [frame EXCEPT ![t].i = @ + 1,
                                     ![t].in_escape = r.in_escape]
           /\ wrote' = [wrote EXCEPT ![t] =
                           @ \o [k \in 1..Len(r.emit) |-> <<file, r.emit[k]>>]]
    /\ UNCHANGED <<mtx, file, fds, nextFd, disk, logger, term, pc,
                   ret, ops, histVars, flushed, envVars, linesVars>>

\* the loop is over: file << '\n', and write_to_file returns
WtfNewlineStripped(t) ==
    /\ pc[t] = "wtf_loop"
    /\ frame[t].i > Len(frame[t].msg)
    /\ Touch(t, "log")
    /\ StreamPut(StripStep(frame[t].in_escape, NL).emit)
    /\ wrote' = [wrote EXCEPT ![t] =
                    IF frame[t].in_escape THEN @ ELSE Append(@, <<file, NL>>)]
    /\ pc' = [pc EXCEPT ![t] = "write_flush"]
    /\ UNCHANGED <<mtx, file, fds, nextFd, disk, logger, term, frame,
                   ret, ops, histVars, flushed, envVars, linesVars>>
WtfNewline(t) ==
    /\ pc[t] = "wtf_loop"
    /\ frame[t].i > Len(frame[t].msg)
    /\ Touch(t, "log")
    /\ StreamPut(<<NL>>)
    /\ wrote' = [wrote EXCEPT ![t] = Append(@, <<file, NL>>)]
    /\ pc' = [pc EXCEPT ![t] = "write_flush"]
    /\ UNCHANGED <<mtx, file, fds, nextFd, disk, logger, term, frame,
                   ret, ops, histVars, flushed, envVars, linesVars>>

\* if (flush) sink.file.flush()
WriteFlush(t) ==
    /\ pc[t] = "write_flush"
    /\ IF frame[t].flush
       THEN /\ StreamFlush
            /\ Touch(t, "log")
            /\ flushed' = [flushed EXCEPT ![t] = TRUE]
       ELSE UNCHANGED <<disk, buf, failbit, unlocked, flushed>>
    /\ pc' = [pc EXCEPT ![t] = "write_unlock"]
    /\ UNCHANGED <<mtx, file, fds, nextFd, logger, term, frame, ret,
                   ops, histVars, wrote, envVars, linesVars>>

\* write returns: the lock_guard releases the mutex
WriteUnlock(t) ==
    /\ pc[t] = "write_unlock"
    /\ Unlock(t)
    /\ pc' = [pc EXCEPT ![t] = "idle"]
    /\ frame' = [frame EXCEPT ![t] = IdleFrame]
    /\ wrote' = [wrote EXCEPT ![t] = << >>]
    /\ flushed' = [flushed EXCEPT ![t] = FALSE]
    /\ UNCHANGED <<file, buf, fds, nextFd, disk, failbit, logger, term,
                   ret, ops, histVars, unlocked, envVars, linesVars>>

\* ------------------------------------------------------------ LogSink::open
\* open(path, append) is entered: std::lock_guard lock(mtx)
OpenLockMissing(t, path, append) ==
    /\ pc[t] = "idle"
    /\ ops < MaxOps
    /\ ops' = ops + 1
    /\ frame' = [frame EXCEPT ![t] =
                     [IdleFrame EXCEPT !.path = path, !.append = append]]
    /\ pc' = [pc EXCEPT ![t] = "open_close_old"]
    /\ ret' = [ret EXCEPT ![t] = "none"]
    /\ UNCHANGED <<sinkVars, logger, term, histVars, wrote, flushed,
                   unlocked, envVars, linesVars>>
OpenLock(t, path, append) ==
    /\ pc[t] = "idle"
    /\ ops < MaxOps
    /\ ops' = ops + 1
    /\ LockGuard(t)
    /\ frame' = [frame EXCEPT ![t] =
                     [IdleFrame EXCEPT !.path = path, !.append = append]]
    /\ pc' = [pc EXCEPT ![t] = "open_close_old"]
    /\ ret' = [ret EXCEPT ![t] = "none"]
    /\ UNCHANGED <<file, buf, fds, nextFd, disk, failbit, logger, term,
                   histVars, wrote, flushed, unlocked, envVars, linesVars>>

\* if (file.is_open()) { file.close(); }
CloseIfOpenSkipped(t, op) ==
    /\ Touch(t, op)
    /\ UNCHANGED <<file, fds, disk, buf, failbit>>
CloseIfOpenUnchecked(t, op) ==
    /\ Touch(t, op)
    /\ IF FileIsOpen THEN StreamClose
                     ELSE /\ failbit' = TRUE
                          /\ UNCHANGED <<file, fds, disk, buf>>
CloseIfOpen(t, op) ==
    /\ Touch(t, op)
    /\ IF FileIsOpen THEN StreamClose
                     ELSE UNCHANGED <<file, fds, disk, buf, failbit>>

OpenCloseOld(t) ==
    /\ pc[t] = "open_close_old"
    /\ CloseIfOpen(t, "open")
    /\ frame' = [frame EXCEPT ![t].was_open = FileIsOpen]
    /\ pc' = [pc EXCEPT ![t] = "open_file"]
    /\ UNCHANGED <<mtx, nextFd, logger, term, ret, ops,
                   histVars, wrote, flushed, envVars, linesVars>>

\* auto mode = ...; file.open(path, mode)
OpenFileRestores(t) ==
    /\ pc[t] = "open_file"
    /\ Touch(t, "open")
    /\ IF StreamOpenSucceeds(frame[t].path)
       THEN /\ StreamOpen(frame[t].path, OpenMode(frame[t].append))
            /\ sessPath' = frame[t].path
            /\ sessAppend' = frame[t].append
            /\ prior' = disk[frame[t].path]
            /\ session' = << >>
            /\ openFailed' = "no"
       ELSE /\ IF frame[t].was_open
               THEN StreamOpen(sessPath, "app")
               ELSE StreamOpen(frame[t].path, OpenMode(frame[t].append))
            /\ openFailed' = IF frame[t].was_open THEN "on_open"
                                                 ELSE "on_closed"
            /\ UNCHANGED <<sessPath, sessAppend, prior, session>>
    /\ pc' = [pc EXCEPT ![t] = "open_return"]
    /\ UNCHANGED <<mtx, logger, term, frame, ret, ops, wrote, flushed,
                   envVars, linesVars>>
OpenFile(t) ==
    /\ pc[t] = "open_file"
    /\ Touch(t, "open")
    /\ StreamOpen(frame[t].path, OpenMode(frame[t].append))
    /\ IF StreamOpenSucceeds(frame[t].path)
       THEN /\ sessPath' = frame[t].path
            /\ sessAppend' = frame[t].append
            /\ prior' = disk[frame[t].path]
            /\ session' = << >>
            /\ openFailed' = "no"
       ELSE /\ openFailed' = IF frame[t].was_open THEN "on_open"
                                                 ELSE "on_closed"
            /\ UNCHANGED <<sessPath, sessAppend, prior, session>>
    /\ pc' = [pc EXCEPT ![t] = "open_return"]
    /\ UNCHANGED <<mtx, logger, term, frame, ret, ops, wrote, flushed,
                   envVars, linesVars>>

\* return file.is_open(), and the lock_guard releases the mutex
OpenReturn(t) ==
    /\ pc[t] = "open_return"
    /\ Touch(t, "open")
    /\ ret' = [ret EXCEPT ![t] = Returned(FileIsOpen)]
    /\ Unlock(t)
    /\ pc' = [pc EXCEPT ![t] = "idle"]
    /\ frame' = [frame EXCEPT ![t] = IdleFrame]
    /\ UNCHANGED <<file, buf, fds, nextFd, disk, failbit, logger, term,
                   ops, histVars, wrote, flushed, envVars, linesVars>>

\* ----------------------------------------------------------- LogSink::close
\* close() is entered: std::lock_guard lock(mtx)
CloseLock(t) ==
    /\ pc[t] = "idle"
    /\ ops < MaxOps
    /\ ops' = ops + 1
    /\ LockGuard(t)
    /\ pc' = [pc EXCEPT ![t] = "close_body"]
    /\ ret' = [ret EXCEPT ![t] = "none"]
    /\ UNCHANGED <<file, buf, fds, nextFd, disk, failbit, logger, term,
                   frame, histVars, wrote, flushed, unlocked, envVars,
                   linesVars>>

\* if (file.is_open()) { file.close(); }, and the lock_guard releases the mutex
CloseBody(t) ==
    /\ pc[t] = "close_body"
    /\ CloseIfOpen(t, "close")
    /\ Unlock(t)
    /\ pc' = [pc EXCEPT ![t] = "idle"]
    /\ UNCHANGED <<nextFd, logger, term, frame, ret, ops, histVars,
                   wrote, flushed, envVars, linesVars>>

\* --------------------------------------------------------- LogSink::is_open
\* Another thread is between the statements of open / close / write that
\* read or change `file`.
RacesWith(t) ==
    \E u \in Threads \ {t} :
        pc[u] \in {"open_close_old", "open_file", "close_body", "wtf_loop",
                   "write_flush"}

\* return file.is_open(), with no lock: while another thread changes the
\* stream the read is a data race and may return either value
IsOpen(t) ==
    /\ pc[t] = "idle"
    /\ ops < MaxOps
    /\ ops' = ops + 1
    /\ Touch(t, "is_open")
    /\ \E r \in (IF RacesWith(t) THEN BOOLEAN ELSE {FileIsOpen}) :
           ret' = [ret EXCEPT ![t] = Returned(r)]
    /\ UNCHANGED <<sinkVars, logger, term, pc, frame, histVars, wrote,
                   flushed, envVars, linesVars>>

\* -------------------------------------------------------------- the system
Next ==
    \E t \in Threads :
        \/ \E c \in Calls : LogCall(t, c[1], c[2])
        \/ WriteLock(t)
        \/ WriteStream(t)
        \/ WriteIsOpen(t)
        \/ WtfLoop(t)
        \/ WtfNewline(t)
        \/ WriteFlush(t)
        \/ WriteUnlock(t)
        \/ \E a \in OpenArgs : OpenLock(t, a[1], a[2])
        \/ OpenCloseOld(t)
        \/ OpenFile(t)
        \/ OpenReturn(t)
        \/ CloseLock(t)
        \/ CloseBody(t)
        \/ IsOpen(t)

Spec == Init /\ [][Next]_vars

\* ------------------------------------------------- a device that fails
\* From some moment on the device refuses every write (the disk is full):
\* flush and close then fail and set the stream's error state.
DeviceFails ==
    /\ ~devFull
    /\ devFull' = TRUE
    /\ UNCHANGED <<sinkVars, is_debug_build, logger, term, pc, frame, ret,
                   ops, histVars, wrote, flushed, unlocked, linesVars>>

\* the next statement of the operation thread t is inside of
Step(t) ==
    \/ WriteLock(t)
    \/ WriteStream(t)
    \/ WriteIsOpen(t)
    \/ WtfLoop(t)
    \/ WtfNewline(t)
    \/ WriteFlush(t)
    \/ WriteUnlock(t)
    \/ OpenCloseOld(t)
    \/ OpenFile(t)
    \/ OpenReturn(t)
    \/ CloseBody(t)

\* the logging calls made while the device may fail: err("x"), log("x")
FailCalls == { <<"err", <<120>> >>, <<"log", <<120>> >> }

\* logging, open and close on a device that may fail
NextFail ==
    \/ DeviceFails
    \/ \E t \in Threads :
           \/ \E c \in FailCalls : LogCall(t, c[1], c[2])
           \/ \E a \in OpenArgs : OpenLock(t, a[1], a[2])
           \/ CloseLock(t)
           \/ Step(t)

\* every thread that is inside an operation keeps running: the scheduler
\* does not stop a thread that can take its next step
SpecFail == Init /\ [][NextFail]_vars /\ \A t \in Threads : WF_vars(Step(t))

\* ------------------------------------------- threads logging to an open file
\* the logging calls of this specification, <<level, formatted body>>:
\* log("x"), err("y\033["), warn("\033[1mz"), dbg("x")
LogCalls ==
    { <<"log", <<120>> >>, <<"err", <<121, ESC, 91>> >>,
      <<"warn", <<ESC, 91, 49, 109, 122>> >>, <<"dbg", <<120>> >> }

\* The program has called init_file("run.log", true) before it started its
\* threads ("Call once before spawning threads"), in a debug or in a
\* release build; MaxOps bounds the calls the threads make.
InitLog ==
    /\ InitCommon
    /\ NoLoop
    /\ is_debug_build \in BOOLEAN
    /\ mtx = 0
    /\ file = 3
    /\ fds = {[fd |-> 3, path |-> "run.log"]}
    /\ nextFd = 4
    /\ sessPath = "run.log"
    /\ sessAppend = TRUE
    /\ prior = OldContent
    /\ session = << >>
    /\ pc = [t \in Threads |-> "idle"]
    /\ frame = [t \in Threads |-> IdleFrame]

NextLog ==
    \E t \in Threads :
        \/ \E c \in LogCalls : LogCall(t, c[1], c[2])
        \/ WriteLock(t)
        \/ WriteStream(t)
        \/ WriteIsOpen(t)
        \/ WtfLoop(t)
        \/ WtfNewline(t)
        \/ WriteFlush(t)
        \/ WriteUnlock(t)

SpecLog == InitLog /\ [][NextLog]_vars

\* ------------------------------------------- write_to_file on any message
\* Thread 1 holds the mutex, run.log has been opened for appending with
\* nothing written yet, and write_to_file is entered with an arbitrary message.
InitStrip ==
    /\ InitCommon
    /\ NoLoop
    /\ is_debug_build = TRUE
    /\ mtx = 1
    /\ file = 3
    /\ fds = {[fd |-> 3, path |-> "run.log"]}
    /\ nextFd = 4
    /\ sessPath = "run.log"
    /\ sessAppend = TRUE
    /\ prior = OldContent
    /\ pc = [t \in Threads |-> IF t = 1 THEN "wtf_loop" ELSE "idle"]
    /\ \E m \in Messages :
          /\ frame = [t \in Threads |->
                         IF t = 1 THEN [IdleFrame EXCEPT !.msg = m, !.i = 1]
                                  ELSE IdleFrame]
          /\ session = << [ thread |-> 1, level |-> "none", msg |-> m,
                            record |-> write_to_file_bytes(m), n |-> 0 ] >>

NextStrip == WtfLoop(1) \/ WtfNewline(1)

SpecStrip == InitStrip /\ [][NextStrip]_vars

\* ------------------------------------------------------- mutils::lines
\* std::string::npos, the largest size_t: larger than every length and
\* every position (the largest integer of the model)
npos == 2147483647

\* the bytes of the strings handed to lines(): '\n', 'a', 'b'
LineBytes == {NL, 97, 98}

\* every string of at most MaxStrLen bytes over LineBytes
Strings == UNION {[1..n -> LineBytes] : n \in 0..MaxStrLen}

\* str.find('\n', from): positions count from 0
Find(s, from) ==
    IF \E e \in from..(Len(s) - 1) : s[e + 1] = NL
    THEN CHOOSE e \in from..(Len(s) - 1) :
             /\ s[e + 1] = NL
             /\ \A d \in from..(e - 1) : s[d + 1] # NL
    ELSE npos

\* str.substr(from, count), for from <= str.size()
Substr(s, from, count) ==
    SubSeq(s, from + 1, IF from + count > Len(s) THEN Len(s) ELSE from + count)

\* Iterator::advance() on an iterator with pos p and current cur: the new
\* pos and current
Advance(s, p, cur) ==
    IF p >= Len(s)
    THEN [pos |-> npos, current |-> cur]
    ELSE LET end == Find(s, p)
         IN  IF end = npos
             THEN [pos |-> npos, current |-> Substr(s, p, Len(s) - p)]
             ELSE [pos |-> end + 1, current |-> Substr(s, p, end - p)]

\* Iterator(str, pos): the constructor calls advance()
Iterator(s, p) == Advance(s, p, << >>)

\* the state of the program outside the loop
restVars ==
    <<sinkVars, envVars, logger, term, pc, frame, ret, ops, histVars,
      wrote, flushed, unlocked>>

\* for (const auto &line : mutils::lines(s)): auto it = range.begin()
LinesBegin ==
    /\ lpc = "begin"
    /\ pos' = Iterator(str_, 0).pos
    /\ current' = Iterator(str_, 0).current
    /\ lpc' = "test"
    /\ UNCHANGED <<str_, out, restVars>>

\* it != range.end(): operator!= compares pos with the pos of
\* Iterator(str_, npos)
LinesTest ==
    /\ lpc = "test"
    /\ lpc' = IF pos # Iterator(str_, npos).pos THEN "body" ELSE "done"
    /\ UNCHANGED <<str_, pos, current, out, restVars>>

\* const auto &line = *it, and the body of the loop receives line
LinesBody ==
    /\ lpc = "body"
    /\ out' = Append(out, current)
    /\ lpc' = "incr"
    /\ UNCHANGED <<str_, pos, current, restVars>>

\* ++it
LinesIncr ==
    /\ lpc = "incr"
    /\ pos' = Advance(str_, pos, current).pos
    /\ current' = Advance(str_, pos, current).current
    /\ lpc' = "test"
    /\ UNCHANGED <<str_, out, restVars>>

\* the loop is about to start on any string; nothing else runs
InitLines ==
    /\ InitCommon
    /\ is_debug_build = TRUE
    /\ mtx = 0
    /\ file = 0
    /\ fds = {}
    /\ nextFd = 3
    /\ sessPath = NoPath
    /\ sessAppend = FALSE
    /\ prior = << >>
    /\ session = << >>
    /\ pc = [t \in Threads |-> "idle"]
    /\ frame = [t \in Threads |-> IdleFrame]
    /\ str_ \in Strings
    /\ pos = 0
    /\ current = << >>
    /\ out = << >>
    /\ lpc = "begin"

NextLines == LinesBegin \/ LinesTest \/ LinesBody \/ LinesIncr

SpecLines == InitLines /\ [][NextLines]_vars

\* =============================================================== properties
\* number of '\n' bytes in s: the number of lines of a file whose every line
\* is terminated
CountNL(s) == Cardinality({k \in 1..Len(s) : s[k] = NL})

HasEsc(s) == \E k \in 1..Len(s) : s[k] = ESC

\* no thread is inside the loop of write_to_file
Quiescent == \A t \in Threads : pc[t] # "wtf_loop"

\* what write_to_file appends for the calls of sess, one after the other
RECURSIVE Records(_)
Records(sess) ==
    IF sess = << >> THEN << >>
    ELSE Head(sess).record \o Records(Tail(sess))

\* s is an initial part of r
IsPrefix(s, r) == Len(s) <= Len(r) /\ s = SubSeq(r, 1, Len(s))

\* the content the last successful open left in the file
Base == IF sessAppend THEN prior ELSE << >>

\* the bytes the current call of thread t has written to the file
WroteBytes(t) == [k \in 1..Len(wrote[t]) |-> wrote[t][k][2]]

\* the descriptors the current call of thread t has written to
WroteFds(t) == {wrote[t][k][1] : k \in 1..Len(wrote[t])}

C2_LevelName(lv) ==
    CASE lv = "log"  -> <<76, 79, 71>>
      [] lv = "err"  -> <<69, 82, 82, 79, 82>>
      [] lv = "warn" -> <<87, 65, 82, 78, 73, 78, 71>>
      [] lv = "dbg"  -> <<68, 69, 66, 85, 71>>

\* "THREAD <id> [<LEVEL>]: <body>"
C2_SpecLine(t, lv, body) ==
    <<84, 72, 82, 69, 65, 68, 32>> \o ThreadIdStr(t) \o <<32, 91>>
        \o C2_LevelName(lv) \o <<93, 58, 32>> \o body

\* "[THREAD <id>] [<LEVEL>]: "
C2_CodePrefix(t, lv) ==
    <<91, 84, 72, 82, 69, 65, 68, 32>> \o ThreadIdStr(t) \o <<93, 32, 91>>
        \o C2_LevelName(lv) \o <<93, 58, 32>>

\* body without its escape spans: outside a span a byte is kept, an ESC opens
\* a span, the first ASCII letter after it closes it
RECURSIVE C2_Unescaped(_, _)
C2_Unescaped(body, inside) ==
    IF body = << >> THEN << >>
    ELSE LET c == Head(body)
         IN  IF inside
             THEN C2_Unescaped(Tail(body), c \notin (65..90) \cup (97..122))
             ELSE IF c = ESC
                  THEN C2_Unescaped(Tail(body), TRUE)
                  ELSE <<c>> \o C2_Unescaped(Tail(body), FALSE)

\* C2 as stated: when write_to_file returns, what the call has written to the
\* file is exactly "THREAD <id> [<LEVEL>]: <body>" and the line terminator.
C2_LineAsSpecified ==
    \A t \in Threads :
        pc[t] = "write_flush" =>
            WroteBytes(t) =
                C2_SpecLine(t, frame[t].level, frame[t].body) \o <<NL>>

\* C2 amended: what a logging call writes to the file is exactly
\* "[THREAD <id>] [<LEVEL>]: <body>" (THREAD and the id inside one pair of
\* brackets), the body with its escape spans removed, then one line
\* terminator, and nothing else.
C2_LineAsWritten ==
    \A t \in Threads :
        pc[t] = "write_flush" =>
            WroteBytes(t) =
                C2_CodePrefix(t, frame[t].level)
                    \o C2_Unescaped(frame[t].body, FALSE) \o <<NL>>

\* a debug call with a coloured message has written its line to the file
C2_Witness ==
    \E t \in Threads :
        /\ pc[t] = "write_flush"
        /\ frame[t].level = "dbg"
        /\ HasEsc(frame[t].msg)
        /\ Len(wrote[t]) > 1

\* ------------------------------------------------------------------- C3
\* the terminal stream of each level
C3_Stream(lv) == IF lv \in {"log", "dbg"} THEN "cout" ELSE "cerr"

\* C3: when a logging call is about to release the lock, its message and a
\* line terminator are the last write to the terminal, on stdout for log and
\* dbg and on stderr for warn and err; it has flushed the file exactly when
\* it is err and the file is open; it has written to the file exactly when
\* the file is open.
C3_DispatchPolicy ==
    \A t \in Threads :
        pc[t] = "write_unlock" =>
            /\ term # << >>
            /\ term[Len(term)] = [ stream |-> C3_Stream(frame[t].level),
                                   text |-> frame[t].msg \o <<NL>>,
                                   thread |-> t ]
            /\ flushed[t] = (frame[t].level = "err" /\ FileIsOpen)
            /\ (wrote[t] # << >>) = FileIsOpen

\* a warn call has written to the open file and not flushed it
C3_Witness ==
    \E t \in Threads :
        /\ pc[t] = "write_unlock"
        /\ frame[t].level = "warn"
        /\ FileIsOpen
        /\ wrote[t] # << >>
        /\ ~flushed[t]
        /\ buf # << >>

\* ------------------------------------------------------------------- C4
\* C4: when write_to_file returns on a message with no ESC byte, it has
\* appended exactly the message's bytes, in order, then one '\n'.
C4_NoEscapeIdentity ==
    \A t \in Threads :
        (pc[t] = "write_flush" /\ ~HasEsc(frame[t].msg)) =>
            /\ WroteBytes(t) = frame[t].msg \o <<NL>>
            /\ FileContent(sessPath) =
                   Base \o Records(SubSeq(session, 1, Len(session) - 1))
                        \o frame[t].msg \o <<NL>>

\* a message of letters, non-letters and a line terminator, no ESC
C4_Witness ==
    /\ pc[1] = "write_flush"
    /\ frame[1].msg = <<65, NL, 91, 122>>
    /\ buf = <<65, NL, 91, 122, NL>>

\* ------------------------------------------------------------------- C5
C5_Letter(c) == c \in (65..90) \cup (97..122)

\* index of the first ASCII letter of s after index i, 0 when there is none
C5_Terminator(s, i) ==
    IF \E j \in (i + 1)..Len(s) : C5_Letter(s[j])
    THEN CHOOSE j \in (i + 1)..Len(s) :
             /\ C5_Letter(s[j])
             /\ \A k \in (i + 1)..(j - 1) : ~C5_Letter(s[k])
    ELSE 0

\* s from index i on, with every span ESC, non-letters, letter removed and
\* every other byte kept
RECURSIVE C5_SpansRemoved(_, _)
C5_SpansRemoved(s, i) ==
    IF i > Len(s) THEN << >>
    ELSE IF s[i] = ESC /\ C5_Terminator(s, i) # 0
         THEN C5_SpansRemoved(s, C5_Terminator(s, i) + 1)
         ELSE <<s[i]>> \o C5_SpansRemoved(s, i + 1)

\* as C5_SpansRemoved, but an ESC that no letter follows ends the output
RECURSIVE C5_SpansAndTailRemoved(_, _)
C5_SpansAndTailRemoved(s, i) ==
    IF i > Len(s) THEN << >>
    ELSE IF s[i] = ESC
         THEN IF C5_Terminator(s, i) # 0
              THEN C5_SpansAndTailRemoved(s, C5_Terminator(s, i) + 1)
              ELSE << >>
         ELSE <<s[i]>> \o C5_SpansAndTailRemoved(s, i + 1)

\* C5 as stated: for every message, write_to_file removes each span ESC,
\* non-letters, letter and emits every byte outside such spans unchanged.
C5_SpansOnly ==
    \A t \in Threads :
        pc[t] = "write_flush" =>
            WroteBytes(t) = C5_SpansRemoved(frame[t].msg, 1) \o <<NL>>

\* C5 amended: write_to_file removes each span ESC, non-letters, letter and
\* emits every byte outside such spans unchanged and in order, except that an
\* ESC with no ASCII letter after it is dropped with every byte after it.
C5_SpansAndTail ==
    \A t \in Threads :
        pc[t] = "write_flush" =>
            WroteBytes(t) = C5_SpansAndTailRemoved(frame[t].msg, 1) \o <<NL>>

\* an escape at the first byte with a non-letter inside, a kept byte after it
C5_Witness ==
    /\ pc[1] = "write_flush"
    /\ frame[1].msg = <<ESC, 91, 97, 64>>
    /\ buf = <<64, NL>>

C6_InnerNL(sess) == CountNL(Records(sess)) - Len(sess)

C7_AppendKeepsPrior ==
    (sessPath # NoPath /\ sessAppend /\ Quiescent) =>
        /\ FileContent(sessPath) = prior \o Records(session)
        /\ (~FileIsOpen => disk[sessPath] = prior \o Records(session))

\* a file that held content was opened with append and two calls have logged
C7_Witness ==
    /\ sessPath = "run.log"
    /\ sessAppend
    /\ prior = OldContent
    /\ Len(session) = 2
    /\ \A t \in Threads : pc[t] = "idle"

\* ------------------------------------------------------------------- C8
\* C8: the process holds at most one descriptor, it is the one of
\* LogSink::file, and when open() reaches file.open no descriptor is held:
\* the handle that was open has been closed.
C8_OneHandle ==
    /\ Cardinality(fds) <= 1
    /\ \A h \in fds : h.fd = file
    /\ FileIsOpen => \E h \in fds : h.fd = file
    /\ \A t \in Threads : pc[t] = "open_file" => (fds = {} /\ ~FileIsOpen)

\* open() was called with a handle open and is about to open the new one
C8_Witness ==
    \E t \in Threads :
        /\ pc[t] = "open_file"
        /\ nextFd = 4
        /\ fds = {}

\* ------------------------------------------------------------------- C9
\* C9 as stated: no public operation touches the file handle without
\* holding the lock.
C9_AllUnderLock == unlocked = {}

\* C9 amended: open, close and the logging calls (write_to_file inside them)
\* read and change the file handle only while the calling thread holds the
\* lock; is_open reads it without taking the lock.
C9_AllButIsOpenUnderLock == unlocked \subseteq {"is_open"}

\* is_open has read the handle while another thread, holding the lock, is
\* inside write_to_file
C9_Witness ==
    /\ unlocked = {"is_open"}
    /\ \E t \in Threads : pc[t] = "wtf_loop" /\ mtx = t /\ frame[t].i > 1

\* ------------------------------------------------------------------ C10
\* C10: all bytes a logging call writes go to one open handle, and when
\* write_to_file has returned the call has written its whole record to that
\* handle; a call that found the file closed has written nothing.
C10_OneHandlePerMessage ==
    \A t \in Threads :
        /\ Cardinality(WroteFds(t)) <= 1
        /\ 0 \notin WroteFds(t)
        /\ pc[t] = "write_flush" =>
               /\ WroteBytes(t) = write_to_file_bytes(frame[t].msg)
               /\ WroteFds(t) = {file}
        /\ pc[t] = "write_unlock" =>
               \/ (wrote[t] = << >> /\ ~FileIsOpen)
               \/ (/\ WroteBytes(t) = write_to_file_bytes(frame[t].msg)
                   /\ WroteFds(t) = {file})

\* a call has written its whole record to the second handle the sink opened
C10_Witness ==
    \E t \in Threads :
        /\ pc[t] = "write_flush"
        /\ file = 4
        /\ WroteFds(t) = {4}

\* ------------------------------------------------------------------ C11
\* a thread that is outside every operation, or about to take the lock in
\* write, does not hold the lock
C11_LockHeldInside ==
    \A t \in Threads : pc[t] \in {"idle", "write_lock"} => mtx # t

\* while some thread is inside an operation, some thread can take a step
C11_NoDeadlock ==
    (\E t \in Threads : pc[t] # "idle") => ENABLED (\E t \in Threads : Step(t))

\* C11: with the file open or closed and with a device that may refuse
\* writes, every logging, open and close call that has started returns with
\* the lock released (again and again no thread is inside an operation and
\* the lock is free, so a call waiting for it gets it), no thread takes the
\* lock while it holds it, and no state with a call in progress is a
\* deadlock.
C11_TerminatesAndReleases ==
    /\ [](C11_LockHeldInside /\ C11_NoDeadlock)
    /\ []<>(mtx = 0 /\ \A t \in Threads : pc[t] = "idle")

\* an err call whose flush the device refused is about to return, another
\* thread waits for the lock
C11_Witness ==
    \E t \in Threads :
        /\ pc[t] = "write_unlock"
        /\ frame[t].level = "err"
        /\ flushed[t]
        /\ failbit
        /\ devFull
        /\ \E u \in Threads \ {t} : pc[u] = "write_lock"

\* ------------------------------------------------------------------ C12
\* C12: when an err call that found the file open is about to return, the
\* stream buffer is empty and the file on disk holds what the open left in
\* it followed by the record of every call logged since, this call's record
\* last: the line and every line before it survive the end of the process.
C12_ErrDurable ==
    \A t \in Threads :
        (pc[t] = "write_unlock" /\ frame[t].level = "err" /\ FileIsOpen) =>
            /\ buf = << >>
            /\ session # << >>
            /\ session[Len(session)].thread = t
            /\ session[Len(session)].msg = frame[t].msg
            /\ disk[PathOfFile] = Base \o Records(session)

\* an err call returns after a log call whose line was still in the buffer
C12_Witness ==
    \E t \in Threads :
        /\ pc[t] = "write_unlock"
        /\ frame[t].level = "err"
        /\ FileIsOpen
        /\ Len(session) = 2
        /\ session[1].level = "log"
        /\ session[1].thread # t

\* ------------------------------------------------------------------ C13
\* while the last open() is one that failed: no file is open and no byte is
\* waiting for one, and a logging call that is about to return has written
\* its message and a line terminator to its terminal stream, as the last
\* write there, and nothing to a file
C13_TerminalOnly ==
    openFailed # "no" =>
        /\ ~FileIsOpen
        /\ fds = {}
        /\ buf = << >>
        /\ \A t \in Threads :
               pc[t] = "write_unlock" =>
                   /\ term # << >>
                   /\ term[Len(term)] =
                          [ stream |-> C3_Stream(frame[t].level),
                            text |-> Compose(logger[t], frame[t].level,
                                             frame[t].body) \o <<NL>>,
                            thread |-> t ]
                   /\ wrote[t] = << >>
                   /\ ~flushed[t]

\* C13: an open() that cannot open its path returns false, and from then on
\* (until an open() succeeds) every logging call writes its message to its
\* terminal stream as it does with no file configured, and nothing to a file.
C13_FailedOpen ==
    /\ []C13_TerminalOnly
    /\ [][\A t \in Threads :
             (/\ pc[t] = "open_return"
              /\ openFailed # "no"
              /\ pc'[t] = "idle") =>
                 ret'[t] = "false"]_vars

\* open() has returned false to one thread and a logging call of the other
\* is about to return
C13_Witness ==
    /\ openFailed # "no"
    /\ \E t \in Threads :
           /\ pc[t] = "write_unlock"
           /\ frame[t].level = "warn"
           /\ \E u \in Threads \ {t} : pc[u] = "idle" /\ ret[u] = "false"

\* ------------------------------------------------------------------ C14
\* offset in the file at which the line of the k-th call of session starts
C14_LineStart(k) == Len(Base) + Len(Records(SubSeq(session, 1, k - 1)))

\* the call of the k-th entry of session has returned from write_to_file
C14_Written(k) ==
    k < Len(session) \/ pc[session[k].thread] # "wtf_loop"

\* the k-th call's line is in the file, whole, at its offset
C14_LineInFile(k) ==
    LET c == FileContent(sessPath)
        from == C14_LineStart(k)
        rec == session[k].record
    IN  /\ Len(c) >= from + Len(rec)
        /\ SubSeq(c, from + 1, from + Len(rec)) = rec

\* C14: for every two lines one thread has written to the file, the line of
\* the call the thread made first lies before the line of the call it made
\* later, whatever the other thread did in between.
C14_ThreadOrder ==
    \A i, j \in 1..Len(session) :
        (/\ i # j
         /\ session[i].thread = session[j].thread
         /\ session[i].n < session[j].n
         /\ C14_Written(i)
         /\ C14_Written(j)) =>
            /\ C14_LineInFile(i)
            /\ C14_LineInFile(j)
            /\ C14_LineStart(i) + Len(session[i].record) <= C14_LineStart(j)

\* one thread has written two lines and the other thread one between them
C14_Witness ==
    /\ Len(session) = 3
    /\ session[1].thread = session[3].thread
    /\ session[2].thread # session[1].thread
    /\ session[1].n = 1
    /\ session[3].n = 2
    /\ \A t \in Threads : pc[t] = "idle"

\* ------------------------------------------------------------------ C15
\* while no file is open, a logging call that is about to return has
\* written its line to its terminal stream and no byte to a file
C15_ClosedTerminalOnly ==
    ~FileIsOpen =>
        /\ fds = {}
        /\ buf = << >>
        /\ \A t \in Threads :
               pc[t] = "write_unlock" =>
                   /\ term # << >>
                   /\ term[Len(term)].thread = t
                   /\ term[Len(term)].text = frame[t].msg \o <<NL>>
                   /\ wrote[t] = << >>
                   /\ ~flushed[t]

\* the body of close(): on a sink with no open file it changes neither the
\* sink nor any file; on an open file it leaves the sink closed, with the
\* buffered bytes in the file
C15_CloseStep ==
    \A t \in Threads :
        (pc[t] = "close_body" /\ pc'[t] = "idle") =>
            /\ ~FileIsOpen =>
                   UNCHANGED <<file, buf, fds, nextFd, disk, failbit, term,
                               histVars>>
            /\ FileIsOpen =>
                   disk'[PathOfFile] = disk[PathOfFile] \o buf
            /\ file' = 0
            /\ fds' = {}
            /\ mtx' = 0

\* C15: close() on a sink that was never opened or is already closed
\* changes nothing, close() in any state leaves the sink closed, and while
\* the sink is closed every logging call writes to its terminal stream only.
C15_CloseIdempotent == []C15_ClosedTerminalOnly /\ [][C15_CloseStep]_vars

\* close() is called on a sink that was opened and has been closed
C15_Witness ==
    \E t \in Threads :
        /\ pc[t] = "close_body"
        /\ ~FileIsOpen
        /\ sessPath # NoPath
        /\ openFailed = "no"
        /\ nextFd = 4

\* ------------------------------------------------------------------ C16
\* the line a call log(body) of thread t writes to the terminal
C16_LogText(t, body) == Compose(logger[t], "log", body) \o <<NL>>

\* text with the level name LOG, which starts at offset at, replaced by DEBUG
C16_Renamed(text, at) ==
    SubSeq(text, 1, at) \o <<68, 69, 66, 85, 71>>
        \o SubSeq(text, at + 4, Len(text))

\* offset of the level name in a line of thread t: after the thread colour,
\* "[THREAD <id>] ", the level colour and "["
C16_NameAt(t) ==
    Len(logger[t].thread_color) + Len(ThreadTag(logger[t].thread_id_str))
        + Len(logger[t].log_color) + 1

\* release build: no dbg call is ever inside write (none waits for or holds
\* the lock), no line in the file and no line on a terminal comes from dbg
C16_ReleaseSilent ==
    ~is_debug_build =>
        /\ \A t \in Threads : frame[t].level # "dbg"
        /\ \A k \in 1..Len(session) : session[k].level # "dbg"
        /\ \A k \in 1..Len(term) :
               \E c \in LogCalls :
                   /\ c[1] # "dbg"
                   /\ term[k].text =
                          Compose(logger[term[k].thread], c[1], c[2])
                              \o <<NL>>

\* debug build: a dbg call that is about to return has done what log does
\* with the same body, the level name apart
C16_DebugAsLog ==
    is_debug_build =>
        \A t \in Threads :
            (pc[t] = "write_unlock" /\ frame[t].level = "dbg") =>
                /\ term[Len(term)].stream = C3_Stream("log")
                /\ term[Len(term)].text =
                       C16_Renamed(C16_LogText(t, frame[t].body),
                                   C16_NameAt(t))
                /\ frame[t].flush = FlushArg("log")
                /\ flushed[t] = FALSE
                /\ WroteBytes(t) =
                       write_to_file_bytes(
                           C16_Renamed(Compose(logger[t], "log",
                                               frame[t].body),
                                       C16_NameAt(t)))

\* C16: in a release build dbg writes to no terminal stream and to no file
\* and never reaches the lock; in a debug build dbg writes what log writes
\* for the same body, with DEBUG for LOG, to the same stream and to the
\* file, without flushing.
C16_DbgByBuild == C16_ReleaseSilent /\ C16_DebugAsLog

\* release build: two calls were made and have returned, one of them a dbg
\* call that left no line
C16_Witness ==
    /\ ~is_debug_build
    /\ ops = 2
    /\ Len(term) = 1
    /\ Len(session) = 1
    /\ \A t \in Threads : pc[t] = "idle"

\* ------------------------------------------------------------------ C17
\* C17: the k-th line in the file is the line of the call that made the
\* k-th write to the terminal (stdout and stderr as one sequence): the two
\* orders are the same, and at most one call has written to the terminal and
\* not yet entered write_to_file.
C17_FileOrderIsTerminalOrder ==
    /\ Len(session) <= Len(term)
    /\ Len(term) <= Len(session) + 1
    /\ \A k \in 1..Len(session) :
           /\ term[k].thread = session[k].thread
           /\ term[k].text = session[k].msg \o <<NL>>
           /\ C14_Written(k) => C14_LineInFile(k)

\* three calls of two threads, on stdout and on stderr, have written their
\* lines
C17_Witness ==
    /\ Len(session) = 3
    /\ \E j, k \in 1..3 : term[j].thread # term[k].thread
    /\ \E j, k \in 1..3 : term[j].stream = "cout" /\ term[k].stream = "cerr"
    /\ Quiescent

\* ------------------------------------------------------------------ C18
\* msg has an ESC that no ASCII letter follows
C18_Unterminated(msg) ==
    \E e \in 1..Len(msg) : msg[e] = ESC /\ C5_Terminator(msg, e) = 0

\* index of the first such ESC
C18_OpenEsc(msg) ==
    CHOOSE e \in 1..Len(msg) :
        /\ msg[e] = ESC
        /\ C5_Terminator(msg, e) = 0
        /\ \A d \in 1..(e - 1) : msg[d] = ESC => C5_Terminator(msg, d) # 0

\* C18: when write_to_file returns on a message with an ESC that no letter
\* follows, it has written the bytes before that ESC (escape spans removed)
\* and then exactly one line terminator; every call enters the loop of
\* write_to_file outside escape mode, and the line of the call that comes
\* next in the file, from either thread, is whole.
C18_UnterminatedStaysLocal ==
    /\ \A t \in Threads :
           (pc[t] = "wtf_loop" /\ frame[t].i = 1) => ~frame[t].in_escape
    /\ \A t \in Threads :
           (pc[t] = "write_flush" /\ C18_Unterminated(frame[t].msg)) =>
               /\ frame[t].in_escape
               /\ WroteBytes(t) =
                      C5_SpansAndTailRemoved(
                          SubSeq(frame[t].msg, 1,
                                 C18_OpenEsc(frame[t].msg) - 1), 1)
                          \o <<NL>>
               /\ CountNL(WroteBytes(t)) = 1
    /\ \A k \in 1..(Len(session) - 1) :
           (C18_Unterminated(session[k].msg) /\ C14_Written(k + 1)) =>
               /\ C14_LineInFile(k)
               /\ C14_LineInFile(k + 1)
               /\ session[k + 1].record =
                      C5_SpansAndTailRemoved(session[k + 1].msg, 1) \o <<NL>>

\* the thread without colours has logged a body that ends inside an escape
\* sequence, and the other thread has written its line after it
C18_Witness ==
    /\ Len(session) = 2
    /\ session[1].thread = 2
    /\ C18_Unterminated(session[1].msg)
    /\ session[2].thread = 1
    /\ ~C18_Unterminated(session[2].msg)
    /\ \A t \in Threads : pc[t] = "idle"

\* ------------------------------------------------------------------ C19
\* the lines of s: the maximal runs of bytes between line terminators, the
\* run after the last terminator included when it is not empty
RECURSIVE C19_Lines(_)
C19_Lines(s) ==
    IF s = << >> THEN << >>
    ELSE IF \A k \in 1..Len(s) : s[k] # NL
         THEN << s >>
         ELSE LET e == CHOOSE k \in 1..Len(s) :
                           s[k] = NL /\ \A d \in 1..(k - 1) : s[d] # NL
              IN  << SubSeq(s, 1, e - 1) >> \o C19_Lines(SubSeq(s, e + 1, Len(s)))

\* C19: when the loop over lines(s) ends, its body has received every line
\* of s once and in order, the last line also when s does not end with a
\* line terminator, and nothing when s is empty.
C19_EveryLineOnce == lpc = "done" => out = C19_Lines(str_)

\* ------------------------------------------------------------------ C20
\* C20: open() closes the handle that is open before it tries the new path
\* (no handle is held at file.open), and once it has failed with a file
\* open, until an open() succeeds: no file is open and no handle is held,
\* the file that was open holds on disk exactly the records it had been
\* given before the failed open() and gets no more, and a logging call that
\* is about to return has written to the terminal only.
C20_FailedReopenClosesSink ==
    /\ \A t \in Threads :
           pc[t] = "open_file" => (~FileIsOpen /\ fds = {} /\ buf = << >>)
    /\ openFailed = "on_open" =>
           /\ ~FileIsOpen
           /\ fds = {}
           /\ buf = << >>
           /\ sessPath # NoPath
           /\ disk[sessPath] = Base \o Records(session)
           /\ \A t \in Threads :
                  pc[t] = "write_unlock" =>
                      /\ wrote[t] = << >>
                      /\ ~flushed[t]
                      /\ term # << >>
                      /\ term[Len(term)].thread = t

\* run.log was open when an open() failed, and a logging call made after
\* that is about to return
C20_Witness ==
    /\ openFailed = "on_open"
    /\ sessPath = "run.log"
    /\ \E t \in Threads : pc[t] = "write_unlock" /\ frame[t].level = "err"

====
